---- MODULE Spec2Model ----
(***************************************************************************)
(* Car Inspection API (src/main.py, src/schemas.py): the four MongoDB      *)
(* collections, and the handlers seed_demo, search, create_inspection and  *)
(* pay_invoice as actions over them.                                       *)
(*                                                                         *)
(* Text is a sequence of one-character strings, so that strip() and the    *)
(* case-insensitive $regex match are computed character by character.      *)
(* An ObjectId is a natural number; the strings that spell one are         *)
(* <<"oid", n, "lower">> (what str(ObjectId) yields) and                   *)
(* <<"oid", n, "upper">> (the same 24 hex digits in upper case, which      *)
(* ObjectId() also accepts).  Money is kept in cents.                      *)
(***************************************************************************)
EXTENDS Integers, Sequences, FiniteSets, TLC

VARIABLES
    customer,      \* db["customer"]: set of documents
    vehicle,       \* db["vehicle"]
    inspection,    \* db["inspection"]
    invoice,       \* db["invoice"]
    nextId,        \* the next ObjectId the store hands out
    requests,      \* create_inspection calls past their first write
    resp           \* the last response sent: [op, req, status, body]

vars == <<customer, vehicle, inspection, invoice, nextId, requests, resp>>

store == <<customer, vehicle, inspection, invoice>>

\* ---------------------------------------------------------------- bounds

MaxLegacyVehicles == 2

MaxInspections == 2

\* ------------------------------------------------------------------ text

\* Python's None where a string or a list is expected, and where a document is.
None == <<"None">>

NoneDoc == [none |-> TRUE]

Uppers == <<"A", "B", "C", "D", "E", "F", "G", "H", "I", "J", "K", "L", "M",
            "N", "O", "P", "Q", "R", "S", "T", "U", "V", "W", "X", "Y", "Z">>

Lowers == <<"a", "b", "c", "d", "e", "f", "g", "h", "i", "j", "k", "l", "m",
            "n", "o", "p", "q", "r", "s", "t", "u", "v", "w", "x", "y", "z">>

LowerOf == [ch \in {Uppers[i] : i \in 1..Len(Uppers)} |->
               Lowers[CHOOSE i \in 1..Len(Uppers) : Uppers[i] = ch]]

\* One character folded to lower case ($options: "i").
Lower(ch) == IF ch \in DOMAIN LowerOf THEN LowerOf[ch] ELSE ch

IsSpace(ch) == ch \in {" ", "\t", "\n"}

RECURSIVE lstrip(_)
lstrip(s) == IF s # <<>> /\ IsSpace(Head(s)) THEN lstrip(Tail(s)) ELSE s

RECURSIVE rstrip(_)
rstrip(s) ==
    IF s # <<>> /\ IsSpace(s[Len(s)]) THEN rstrip(SubSeq(s, 1, Len(s) - 1)) ELSE s

\* q.q.strip()
strip(s) == rstrip(lstrip(s))

\* {"$regex": query, "$options": "i"} on one field, for a query of letters and
\* digits (no regex metacharacter): the query occurs in the field, case folded.
RegexMatch(query, field) ==
    \E i \in 1..(Len(field) - Len(query) + 1) :
        \A j \in 1..Len(query) : Lower(field[i + j - 1]) = Lower(query[j])

\* -------------------------------------------------------------------- ids

\* str(ObjectId)
Str(oid) == <<"oid", oid, "lower">>

\* The same hex digits in upper case.
UpperStr(oid) == <<"oid", oid, "upper">>

Malformed == <<"text", "zz">>

EmptyStr == <<"text", "">>

\* Python truthiness of an optional string.
Truthy(s) == s # None /\ s # EmptyStr

\* ObjectId(id_str) accepts exactly the 24-hex-digit strings, in either case;
\* anything else raises, which to_obj_id turns into HTTPException(400).
to_obj_id(id_str) ==
    IF id_str # None /\ id_str[1] = "oid"
    THEN [ok |-> TRUE, oid |-> id_str[2]]
    ELSE [ok |-> FALSE, status |-> 400, detail |-> "Invalid ObjectId"]

\* serialize(doc)
serialize(doc) == IF doc = NoneDoc THEN doc ELSE [doc EXCEPT !._id = Str(@)]

\* v.get("customer_id")
GetCustomerId(v) == IF "customer_id" \in DOMAIN v THEN v.customer_id ELSE None

\* ------------------------------------------------------------- responses

Ok(op, req, body) == [op |-> op, req |-> req, status |-> 200, body |-> body]

HttpError(op, req, status, detail) ==
    [op |-> op, req |-> req, status |-> status, body |-> [detail |-> detail]]

NoResponse == [op |-> "none", req |-> None, status |-> 0, body |-> NoneDoc]

\* ------------------------------------------------------------------ seed

AlexDoc(oid) ==
    [_id |-> oid,
     name |-> <<"A", "l", "e", "x", " ", "J", "o", "h", "n", "s", "o", "n">>,
     phone |-> <<"+", "1", " ", "5", "5", "5", "-", "1", "0", "1", "-", "2", "0", "2", "0">>,
     email |-> <<"a", "l", "e", "x", ".", "j", "@", "e", "x", "a", "m", "p", "l", "e", ".", "c", "o", "m">>]

MariaDoc(oid) ==
    [_id |-> oid,
     name |-> <<"M", "a", "r", "i", "a", " ", "G", "o", "m", "e", "z">>,
     phone |-> <<"+", "1", " ", "5", "5", "5", "-", "3", "0", "3", "-", "4", "0", "4", "0">>,
     email |-> <<"m", "a", "r", "i", "a", ".", "g", "@", "e", "x", "a", "m", "p", "l", "e", ".", "c", "o", "m">>]

SeedVehicles(alex_id, maria_id, first) ==
    { [_id |-> first, customer_id |-> Str(alex_id),
       vin |-> <<"1", "H", "G", "C", "M", "8", "2", "6", "3", "3", "A", "0", "0", "4", "3", "5", "2">>,
       plate |-> <<"A", "J", "X", "-", "4", "5", "2", "1">>,
       make |-> <<"H", "o", "n", "d", "a">>,
       model |-> <<"C", "i", "v", "i", "c">>,
       year |-> 2018, color |-> "Blue"],
      [_id |-> first + 1, customer_id |-> Str(alex_id),
       vin |-> <<"1", "F", "T", "F", "W", "1", "E", "T", "1", "E", "K", "E", "1", "2", "3", "4", "5">>,
       plate |-> <<"T", "R", "K", "-", "9", "0", "8", "7">>,
       make |-> <<"F", "o", "r", "d">>,
       model |-> <<"F", "-", "1", "5", "0">>,
       year |-> 2014, color |-> "Black"],
      [_id |-> first + 2, customer_id |-> Str(maria_id),
       vin |-> <<"J", "H", "4", "K", "A", "4", "6", "5", "0", "M", "C", "1", "2", "3", "4", "5", "6">>,
       plate |-> <<"M", "G", "M", "-", "2", "2", "7", "7">>,
       make |-> <<"A", "c", "u", "r", "a">>,
       model |-> <<"L", "e", "g", "e", "n", "d">>,
       year |-> 1991, color |-> "Red"] }

\* A variant that looks for a stored vehicle instead.
AlreadySeededByVehicles(customers, vehicles) == vehicles # {}

\* existing = list(db["customer"].find({}).limit(1)); if existing: ...
AlreadySeeded(customers, vehicles) == customers # {}

\* POST /seed
seed_demo ==
    IF AlreadySeeded(customer, vehicle)
    THEN /\ resp' = Ok("seed", None, [status |-> "ok", message |-> "Already seeded"])
         /\ UNCHANGED <<customer, vehicle, inspection, invoice, nextId, requests>>
    ELSE LET alex_id == nextId
             maria_id == nextId + 1
         IN /\ customer' = customer \cup {AlexDoc(alex_id), MariaDoc(maria_id)}
            /\ vehicle' = vehicle \cup SeedVehicles(alex_id, maria_id, nextId + 2)
            /\ nextId' = nextId + 5
            /\ resp' = Ok("seed", None, [status |-> "ok", message |-> "Seeded"])
            /\ UNCHANGED <<inspection, invoice, requests>>

\* ---------------------------------------------------------------- search

\* db["customer"].find({"$or": [{"name": regex}, {"phone": regex}, {"email": regex}]})
FindCustomers(query) ==
    {c \in customer : \/ RegexMatch(query, c.name)
                      \/ RegexMatch(query, c.phone)
                      \/ RegexMatch(query, c.email)}

\* db["vehicle"].find({"$or": [{"vin": ...}, {"plate": ...}, {"make": ...}, {"model": ...}]})
FindVehicles(query) ==
    {v \in vehicle : \/ RegexMatch(query, v.vin)
                     \/ RegexMatch(query, v.plate)
                     \/ RegexMatch(query, v.make)
                     \/ RegexMatch(query, v.model)}

\* db["vehicle"].find({"customer_id": cid})
VehiclesOf(cid) == {v \in vehicle : GetCustomerId(v) = cid}

\* cust_map: the matched customers, then the owners fetched by id.
CustMap(customers, extra) ==
    LET all == customers \cup extra
    IN [k \in {Str(c._id) : c \in all} |-> CHOOSE c \in all : Str(c._id) = k]

\* A variant that lists only the vehicles the query matched.
CustomerGroupsMatchedOnly(customers, vehicles, grouped) ==
    [cid \in {Str(c._id) : c \in customers} \ DOMAIN grouped |->
        [customer |-> CHOOSE c \in customers : Str(c._id) = cid,
         vehicles |-> {v \in vehicles : GetCustomerId(v) = cid}]]

\* The loop over the matched customers: grouped.setdefault(cid, {...}) with all
\* the vehicles of a customer that no matched vehicle has grouped yet.
CustomerGroups(customers, vehicles, grouped) ==
    [cid \in {Str(c._id) : c \in customers} \ DOMAIN grouped |->
        [customer |-> CHOOSE c \in customers : Str(c._id) = cid,
         vehicles |-> VehiclesOf(cid)]]

\* The loop over the matched vehicles: one group per customer_id value.
VehicleGroups(vehicles, cust_map) ==
    [cid \in {GetCustomerId(v) : v \in vehicles} |->
        [customer |-> IF cid \in DOMAIN cust_map THEN cust_map[cid] ELSE NoneDoc,
         vehicles |-> {v \in vehicles : GetCustomerId(v) = cid}]]

\* The serialized result list; its groups are pairwise different, so the list
\* is kept as a set (the order of the groups is not modelled).
Results(grouped) ==
    { [customer |-> IF grouped[cid].customer # NoneDoc
                    THEN serialize(grouped[cid].customer) ELSE NoneDoc,
       vehicles |-> {serialize(v) : v \in grouped[cid].vehicles}]
      : cid \in DOMAIN grouped }

\* The ids looked up for the owners missing from cust_map; a non-empty string
\* that is no ObjectId makes to_obj_id raise.
MissingCustIds(customers, vehicles) ==
    {GetCustomerId(v) : v \in vehicles} \ {Str(c._id) : c \in customers}

\* The response of POST /search for q.
SearchResponse(q) ==
    LET query == strip(q)
    IN  IF query = <<>> THEN Ok("search", q, [results |-> {}])
        ELSE
        LET customers == FindCustomers(query)
            vehicles == FindVehicles(query)
            missing_cust_ids == MissingCustIds(customers, vehicles)
            lookups == {cid \in missing_cust_ids : Truthy(cid)}
        IN  IF \E cid \in lookups : ~to_obj_id(cid).ok
            THEN HttpError("search", q, 400, "Invalid ObjectId")
            ELSE
            LET oids == {to_obj_id(cid).oid : cid \in lookups}
                extra_customers == {c \in customer : c._id \in oids}
                cust_map == CustMap(customers, extra_customers)
                byVehicle == VehicleGroups(vehicles, cust_map)
                byCustomer == CustomerGroups(customers, vehicles, byVehicle)
                grouped == [cid \in DOMAIN byVehicle \cup DOMAIN byCustomer |->
                               IF cid \in DOMAIN byVehicle
                               THEN byVehicle[cid] ELSE byCustomer[cid]]
            IN  Ok("search", q, [results |-> Results(grouped)])

\* POST /search
search(q) ==
    /\ resp' = SearchResponse(q)
    /\ UNCHANGED <<customer, vehicle, inspection, invoice, nextId, requests>>

\* ------------------------------------------------------- invoice deriver

PreventivePrice == 2500

CriticalPrice == 6000

BaseFee == 4900

TaxPercent == 8

\* The (section, item) pairs of a checks mapping.
Items(checks) == {<<s, i>> \in (DOMAIN checks) \X UNION {DOMAIN checks[s] : s \in DOMAIN checks} :
                     i \in DOMAIN checks[s]}

\* A variant that counts every status other than 'ok'.
CountNotOk(checks, status) ==
    Cardinality({p \in Items(checks) : checks[p[1]][p[2]] # "ok"})

\* counts[status] after the two loops over inspection.checks.
Count(checks, status) ==
    Cardinality({p \in Items(checks) : checks[p[1]][p[2]] = status})

LineItems(attention, fail) ==
    (IF attention # 0
     THEN <<[name |-> "Preventive maintenance items", qty |-> attention, price |-> PreventivePrice]>>
     ELSE <<>>)
    \o (IF fail # 0
        THEN <<[name |-> "Critical repair items", qty |-> fail, price |-> CriticalPrice]>>
        ELSE <<>>)
    \o <<[name |-> "Base inspection fee", qty |-> 1, price |-> BaseFee]>>

\* sum(li["qty"] * li["price"] for li in line_items)
RECURSIVE Subtotal(_)
Subtotal(line_items) ==
    IF line_items = <<>> THEN 0
    ELSE Head(line_items).qty * Head(line_items).price + Subtotal(Tail(line_items))

\* round(num / den, 2) of an amount given in cents as the fraction num / den:
\* to the nearest cent, a tie going to the even cent.  The amounts of this
\* program are whole cents before rounding (8% of a whole number of dollars),
\* so the binary representation of 0.08 never decides the result.
Round2(num, den) ==
    LET q == num \div den
        r == num % den
    IN  IF 2 * r < den THEN q
        ELSE IF 2 * r > den THEN q + 1
        ELSE IF q % 2 = 0 THEN q ELSE q + 1

\* A variant that refers to the vehicle instead of the inspection.
BuildInvoiceWrongRef(ins_id, insp) ==
    LET line_items == LineItems(Count(insp.checks, "attention"), Count(insp.checks, "fail"))
        subtotal == Subtotal(line_items)
        taxes == Round2(subtotal * TaxPercent, 100)
    IN  [inspection_id |-> insp.vehicle_id, line_items |-> line_items, subtotal |-> subtotal,
         taxes |-> taxes, total |-> Round2(subtotal + taxes, 1), paid |-> FALSE]

\* Invoice(inspection_id=ins_id, ..., paid=False) for the stored inspection.
BuildInvoice(ins_id, insp) ==
    LET line_items == LineItems(Count(insp.checks, "attention"), Count(insp.checks, "fail"))
        subtotal == Subtotal(line_items)
        taxes == Round2(subtotal * TaxPercent, 100)
    IN  [inspection_id |-> ins_id, line_items |-> line_items, subtotal |-> subtotal,
         taxes |-> taxes, total |-> Round2(subtotal + taxes, 1), paid |-> FALSE]

\* ---------------------------------------------------- document store adapter

\* The stored document: the model's fields plus the _id the store assigns.
WithId(doc, oid) ==
    [f \in DOMAIN doc \cup {"_id"} |-> IF f = "_id" THEN oid ELSE doc[f]]

\* create_document(collection_name, data): insert, return str(inserted_id).
create_document(coll, data, oid) ==
    [docs |-> coll \cup {WithId(data, oid)}, id |-> Str(oid)]

\* Variants of the update: one that flips paid, one that upserts.
update_one_toggle(coll, inv_id) ==
    LET matched == {d \in coll : d._id = inv_id}
    IN  [matched_count |-> Cardinality(matched),
         modified_count |-> Cardinality(matched),
         docs |-> {IF d \in matched THEN [d EXCEPT !.paid = ~@] ELSE d : d \in coll}]

update_one_upsert(coll, inv_id) ==
    LET matched == {d \in coll : d._id = inv_id}
    IN  [matched_count |-> Cardinality(matched),
         modified_count |-> Cardinality({d \in matched : ~d.paid}),
         docs |-> IF matched = {} THEN coll \cup {[_id |-> inv_id, paid |-> TRUE]}
                  ELSE {IF d \in matched THEN [d EXCEPT !.paid = TRUE] ELSE d : d \in coll}]

\* db["invoice"].update_one({"_id": inv_id}, {"$set": {"paid": True}})
update_one(coll, inv_id) ==
    LET matched == {d \in coll : d._id = inv_id}
    IN  [matched_count |-> Cardinality(matched),
         modified_count |-> Cardinality({d \in matched : ~d.paid}),
         docs |-> {IF d \in matched THEN [d EXCEPT !.paid = TRUE] ELSE d : d \in coll}]

\* db["invoice"].find_one({"_id": inv_id})
find_one(coll, inv_id) ==
    IF \E d \in coll : d._id = inv_id THEN CHOOSE d \in coll : d._id = inv_id ELSE NoneDoc

\* ------------------------------------------------------ create_inspection

\* A variant that validates the customer_id alone.
IdsValidCustomerOnly(payload) == to_obj_id(payload.customer_id).ok

\* to_obj_id(payload.customer_id); to_obj_id(payload.vehicle_id)
IdsValid(payload) ==
    /\ to_obj_id(payload.customer_id).ok
    /\ to_obj_id(payload.vehicle_id).ok

\* Inspection(customer_id=..., photos=payload.photos or [])
InspectionModel(payload) ==
    [customer_id |-> payload.customer_id,
     vehicle_id |-> payload.vehicle_id,
     checks |-> payload.checks,
     notes |-> payload.notes,
     photos |-> IF payload.photos = None \/ payload.photos = <<>> THEN <<>> ELSE payload.photos,
     status |-> "inspection_complete"]

\* POST /inspections up to and including the first write.
create_inspection_begin(payload) ==
    IF ~IdsValid(payload)
    THEN /\ resp' = HttpError("inspections", payload, 400, "Invalid ObjectId")
         /\ UNCHANGED <<customer, vehicle, inspection, invoice, nextId, requests>>
    ELSE LET insp == InspectionModel(payload)
             written == create_document(inspection, insp, nextId)
         IN /\ Cardinality(inspection) < MaxInspections
            /\ inspection' = written.docs
            /\ nextId' = nextId + 1
            /\ requests' = requests \cup
                   {[payload |-> payload, inspection |-> insp, ins_id |-> written.id, pc |-> "invoice"]}
            /\ UNCHANGED <<customer, vehicle, invoice, resp>>

\* POST /inspections from the invoice derivation to the response.
create_inspection_finish(r) ==
    LET inv == BuildInvoice(r.ins_id, r.inspection)
        written == create_document(invoice, inv, nextId)
    IN  /\ r.pc = "invoice"
        /\ invoice' = written.docs
        /\ nextId' = nextId + 1
        /\ requests' = (requests \ {r}) \cup {[r EXCEPT !.pc = "done"]}
        /\ resp' = Ok("inspections", r.payload,
                      [inspection_id |-> r.ins_id, invoice_id |-> written.id, invoice |-> inv])
        /\ UNCHANGED <<customer, vehicle, inspection>>

\* The second write raises (or the process stops): no rollback of the first.
create_inspection_stop(r) ==
    /\ r.pc = "invoice"
    /\ requests' = (requests \ {r}) \cup {[r EXCEPT !.pc = "stopped"]}
    /\ resp' = HttpError("inspections", r.payload, 500, "Internal Server Error")
    /\ UNCHANGED <<customer, vehicle, inspection, invoice, nextId>>

\* ------------------------------------------------------------ pay_invoice

\* A variant that tests modified_count.
NotMatchedByModified(result) == result.modified_count = 0

\* if result.matched_count == 0: raise HTTPException(404)
NotMatched(result) == result.matched_count = 0

\* A response together with the UpdateResult the handler held when it sent it.
WithResult(r, counts) ==
    [f \in DOMAIN r \cup {"result"} |-> IF f = "result" THEN counts ELSE r[f]]

\* POST /pay
pay_invoice(invoice_id) ==
    LET parsed == to_obj_id(invoice_id)
        req == [invoice_id |-> invoice_id]
    IN  IF ~parsed.ok
        THEN /\ resp' = HttpError("pay", req, 400, "Invalid ObjectId")
             /\ UNCHANGED <<customer, vehicle, inspection, invoice, nextId, requests>>
        ELSE LET result == update_one(invoice, parsed.oid)
                 counts == [matched_count |-> result.matched_count,
                            modified_count |-> result.modified_count]
             IN /\ invoice' = result.docs
                /\ resp' = IF NotMatched(result)
                           THEN WithResult(HttpError("pay", req, 404, "Invoice not found"), counts)
                           ELSE WithResult(Ok("pay", req, serialize(find_one(result.docs, parsed.oid))),
                                           counts)
                /\ UNCHANGED <<customer, vehicle, inspection, nextId, requests>>

\* ------------------------------------------------- initial store and inputs

\* A database that already holds documents written by other means: at most one
\* customer, and vehicles whose customer_id is any string or is missing.
ZedDoc ==
    [_id |-> 1, name |-> <<"Z", "e", "d">>, phone |-> <<"7">>, email |-> <<"z", "@", "x">>]

ZedId == ZedDoc._id

OwnerRefs == {Str(ZedId), UpperStr(ZedId), Malformed, EmptyStr, None}

LegacyVehicle(i, ref) ==
    LET fields == [vin |-> <<"K", "I", "T", ToString(i)>>,
                   plate |-> <<"P", ToString(i)>>,
                   make |-> <<"K", "i", "t">>,
                   model |-> IF i = 1 THEN <<"Z", "e", "d">> ELSE <<"C", "a", "r">>,
                   year |-> 2000, color |-> "Grey", _id |-> ZedId + i]
    IN  IF ref = None THEN fields
        ELSE [f \in DOMAIN fields \cup {"customer_id"} |->
                 IF f = "customer_id" THEN ref ELSE fields[f]]

LegacyVehicleSets ==
    UNION { { {LegacyVehicle(i, refs[i]) : i \in 1..n} : refs \in [1..n -> OwnerRefs] }
            : n \in 0..MaxLegacyVehicles }

FirstFreshId == ZedId + MaxLegacyVehicles + 1

Queries ==
    { <<>>,
      <<" ", " ">>,
      <<"j">>,
      <<" ", "c", "i", "v", "i", "c", " ">>,
      <<"A", "L", "E", "X">>,
      <<"k", "i", "t">>,
      <<"z", "e", "d">> }

Mixed ==
    [brakes |-> [pads |-> "attention", rotors |-> "fail"],
     tires |-> [tread |-> "attention", pressure |-> "worn"]]

ChecksInputs == {Mixed}

Payloads ==
    [customer_id : {Str(ZedId), Malformed},
     vehicle_id : {Str(ZedId + 1), Malformed},
     checks : ChecksInputs,
     notes : {None},
     photos : {None}]

\* Invoice ids to pay: those of the stored invoices in both spellings, the ids
\* of the stored inspections and a fresh id (no invoice has them), and two
\* strings that are no ObjectId.
PayInputs ==
    {Str(d._id) : d \in invoice \cup inspection} \cup {UpperStr(d._id) : d \in invoice}
    \cup {Str(nextId), Malformed, EmptyStr}

\* --------------------------------------------------------- specifications

\* A fresh database; every handler, with the searches that tell the seeded
\* customers and vehicles apart.
Init ==
    /\ customer = {}
    /\ vehicle = {}
    /\ inspection = {}
    /\ invoice = {}
    /\ nextId = FirstFreshId
    /\ requests = {}
    /\ resp = NoResponse

Next ==
    \/ seed_demo
    \/ \E q \in {<<>>, <<"j">>, <<"A", "L", "E", "X">>} : search(q)
    \/ \E payload \in Payloads : create_inspection_begin(payload)
    \/ \E r \in requests : create_inspection_finish(r)
    \/ \E r \in requests : create_inspection_stop(r)
    \/ \E invoice_id \in PayInputs : pay_invoice(invoice_id)

Spec == Init /\ [][Next]_vars

\* Seeding and searching a database that already holds documents.
InitLegacy ==
    /\ customer \in SUBSET {ZedDoc}
    /\ vehicle \in LegacyVehicleSets
    /\ inspection = {}
    /\ invoice = {}
    /\ nextId = FirstFreshId
    /\ requests = {}
    /\ resp = NoResponse

NextLegacy ==
    \/ seed_demo
    \/ \E q \in Queries : search(q)

SpecLegacy == InitLegacy /\ [][NextLegacy]_vars

\* The invoice deriver on every checks mapping of two sections of two items.
Statuses == {"ok", "attention", "fail", "worn"}

SectionMaps == UNION {[I -> Statuses] : I \in SUBSET {"pads", "rotors"}}

ChecksDomain == UNION {[S -> SectionMaps] : S \in SUBSET {"brakes", "tires"}}

DeriverPayloads ==
    [customer_id : {Str(ZedId)},
     vehicle_id : {Str(ZedId + 1)},
     checks : ChecksDomain,
     notes : {None},
     photos : {None}]

NextInvoice ==
    \/ \E payload \in DeriverPayloads : inspection = {} /\ create_inspection_begin(payload)
    \/ \E r \in requests : create_inspection_finish(r)

SpecInvoice == Init /\ [][NextInvoice]_vars

\* ================================================================ claims

\* Statuses of a checks mapping equal to st, counted section by section.
RECURSIVE SumOver(_, _, _)
SumOver(checks, sections, st) ==
    IF sections = {} THEN 0
    ELSE LET s == CHOOSE x \in sections : TRUE
         IN  Cardinality({i \in DOMAIN checks[s] : checks[s][i] = st})
             + SumOver(checks, sections \ {s}, st)

NumWith(checks, st) == SumOver(checks, DOMAIN checks, st)

\* A string that spells an ObjectId.
WellFormedId(s) == \E n \in 0..nextId : s = Str(n) \/ s = UpperStr(n)

\* The ObjectId a well-formed string spells.
OidOf(s) == CHOOSE n \in 0..nextId : s = Str(n) \/ s = UpperStr(n)

InspectionCreated == resp.op = "inspections" /\ resp.status = 200

\* C1: the invoice built by create_inspection for a checks mapping with a
\* 'attention' and f 'fail' statuses (every other status counts for neither)
\* has the line items Preventive (qty a, 25.00) only if a > 0, Critical
\* (qty f, 60.00) only if f > 0, then Base (qty 1, 49.00), in this order;
\* subtotal = 25a + 60f + 49, taxes = 8% of the subtotal to the cent,
\* total = subtotal + taxes; a = f = 0 gives one line item and 52.92, and
\* a = 2, f = 1 gives 159.00, 12.72 and 171.72.
C1_InvoiceDerivation ==
    InspectionCreated =>
        LET a == NumWith(resp.req.checks, "attention")
            f == NumWith(resp.req.checks, "fail")
            inv == resp.body.invoice
            sub == 2500 * a + 6000 * f + 4900
            preventive == [name |-> "Preventive maintenance items", qty |-> a, price |-> 2500]
            critical == [name |-> "Critical repair items", qty |-> f, price |-> 6000]
            base == [name |-> "Base inspection fee", qty |-> 1, price |-> 4900]
        IN  /\ inv.line_items = CASE a > 0 /\ f > 0 -> <<preventive, critical, base>>
                                  [] a > 0 /\ f = 0 -> <<preventive, base>>
                                  [] a = 0 /\ f > 0 -> <<critical, base>>
                                  [] OTHER -> <<base>>
            /\ inv.subtotal = sub
            /\ 100 * inv.taxes = 8 * sub
            /\ inv.total = sub + inv.taxes
            /\ inv.paid = FALSE
            /\ (a = 0 /\ f = 0) => (Len(inv.line_items) = 1 /\ inv.total = 5292)
            /\ (a = 2 /\ f = 1) =>
                   (inv.subtotal = 15900 /\ inv.taxes = 1272 /\ inv.total = 17172)

\* An invoice was derived from a = 2, f = 1 with an 'ok' and an unrecognized
\* status beside them.
C1_Witness ==
    /\ InspectionCreated
    /\ NumWith(resp.req.checks, "attention") = 2
    /\ NumWith(resp.req.checks, "fail") = 1
    /\ NumWith(resp.req.checks, "worn") = 1
    /\ Len(resp.body.invoice.line_items) = 3

\* C2: every invoice is created with paid = false; once a stored invoice has
\* paid = true it keeps it in every later state; only a successful pay_invoice
\* of that invoice changes a field of an existing invoice, and it changes
\* paid alone.
C2_PaidMonotonic ==
    [][ /\ \A i \in invoice :
              \E j \in invoice' :
                  /\ j._id = i._id
                  /\ i.paid => j.paid
                  /\ j # i => /\ resp'.op = "pay"
                              /\ resp'.status = 200
                              /\ OidOf(resp'.req.invoice_id) = i._id
                              /\ j = [i EXCEPT !.paid = TRUE]
        /\ \A j \in invoice' :
              (\A i \in invoice : i._id # j._id) => j.paid = FALSE ]_vars

\* A paid invoice is still paid after a later create_inspection completed and
\* stored a second, unpaid, invoice.
C2_Witness ==
    /\ InspectionCreated
    /\ \E i \in invoice : i.paid /\ Str(i._id) # resp.body.invoice_id
    /\ \E j \in invoice : ~j.paid /\ Str(j._id) = resp.body.invoice_id

\* C3: pay_invoice called again for the invoice whose payment was the last
\* response succeeds again, returns the invoice with paid = true as the first
\* call did, and leaves the store as the first call left it.
C3_PayIdempotent ==
    [][ \A s \in PayInputs :
            ( /\ pay_invoice(s)
              /\ resp.op = "pay" /\ resp.status = 200
              /\ WellFormedId(s)
              /\ OidOf(s) = OidOf(resp.req.invoice_id) )
            => /\ resp.body.paid = TRUE
               /\ resp'.status = 200
               /\ resp'.body = resp.body
               /\ store' = store ]_vars

\* pay_invoice succeeded on an invoice that was already paid: the update
\* matched it and modified nothing.
C3_Witness ==
    /\ resp.op = "pay" /\ resp.status = 200
    /\ resp.result.matched_count = 1
    /\ resp.result.modified_count = 0
    /\ resp.body.paid = TRUE

\* C4: pay_invoice with a well-formed id of no stored invoice fails with 404
\* and leaves the four collections unchanged.
C4_PayNotFound ==
    [][ \A s \in PayInputs :
            ( /\ pay_invoice(s)
              /\ WellFormedId(s)
              /\ \A i \in invoice : i._id # OidOf(s) )
            => /\ resp'.status = 404
               /\ store' = store ]_vars

\* pay_invoice answered 404 while an unpaid invoice was stored, for the id of
\* a stored inspection.
C4_Witness ==
    /\ resp.op = "pay" /\ resp.status = 404
    /\ \E i \in invoice : ~i.paid
    /\ \E n \in inspection : Str(n._id) = resp.req.invoice_id

\* C5: create_inspection with a malformed customer_id or vehicle_id, and
\* pay_invoice with a malformed invoice_id, fail with 400 and write nothing
\* (no inspection, no invoice, no request left in flight).
C5_MalformedIdRejected ==
    [][ /\ \A payload \in Payloads :
              ( /\ create_inspection_begin(payload)
                /\ ~(WellFormedId(payload.customer_id) /\ WellFormedId(payload.vehicle_id)) )
              => /\ resp'.op = "inspections" /\ resp'.status = 400
                 /\ store' = store
                 /\ requests' = requests
        /\ \A s \in PayInputs :
              (pay_invoice(s) /\ ~WellFormedId(s))
              => /\ resp'.op = "pay" /\ resp'.status = 400
                 /\ store' = store ]_vars

\* create_inspection answered 400 for a well-formed customer_id and a
\* malformed vehicle_id.
C5_Witness ==
    /\ resp.op = "inspections" /\ resp.status = 400
    /\ WellFormedId(resp.req.customer_id)
    /\ ~WellFormedId(resp.req.vehicle_id)
    /\ inspection = {} /\ invoice = {}

\* C6: seeding an empty store leaves exactly 2 customers and 3 vehicles, and
\* a seed call made while a customer record exists changes no collection.
C6_SeedIdempotent ==
    [][ seed_demo =>
            /\ customer # {} => store' = store
            /\ (customer = {} /\ vehicle = {}) =>
                   (Cardinality(customer') = 2 /\ Cardinality(vehicle') = 3) ]_vars

\* /seed was called a second time after it had seeded an empty store.
C6_Witness ==
    /\ resp.op = "seed" /\ resp.body.message = "Already seeded"
    /\ Cardinality(customer) = 2 /\ Cardinality(vehicle) = 3
    /\ ZedDoc \notin customer

\* A search answered for a query that is not blank.
Searched == resp.op = "search" /\ \E i \in 1..Len(resp.req) : resp.req[i] # " "

\* The query of the last search without its leading and trailing blanks.
Trimmed ==
    LET q == resp.req
        solid == {i \in 1..Len(q) : q[i] # " "}
        first == CHOOSE i \in solid : \A k \in solid : i <= k
        last == CHOOSE i \in solid : \A k \in solid : k <= i
    IN  SubSeq(q, first, last)

Fold(s) == [i \in 1..Len(s) |-> Lower(s[i])]

\* text contains query, letter case ignored.
Contains(text, query) ==
    \E i \in 0..(Len(text) - Len(query)) :
        SubSeq(Fold(text), i + 1, i + Len(query)) = Fold(query)

CustomerMatches(c, query) ==
    Contains(c.name, query) \/ Contains(c.phone, query) \/ Contains(c.email, query)

VehicleMatches(v, query) ==
    \/ Contains(v.vin, query) \/ Contains(v.plate, query)
    \/ Contains(v.make, query) \/ Contains(v.model, query)

\* A document as the API shows it.
Shown(d) == [d EXCEPT !._id = Str(@)]

\* The stored vehicles whose customer_id is the id of customer c.
OwnedBy(c) == {v \in vehicle : "customer_id" \in DOMAIN v /\ v.customer_id = Str(c._id)}

MatchedVehicles == {v \in vehicle : VehicleMatches(v, Trimmed)}

\* The query matches a vehicle whose customer_id is a non-empty string that
\* spells no ObjectId.
MalformedOwnerMatched ==
    \E v \in MatchedVehicles :
        /\ "customer_id" \in DOMAIN v
        /\ v.customer_id # EmptyStr
        /\ ~WellFormedId(v.customer_id)

C8_OwnerGroupForMatchedVehicle ==
    Searched =>
        \A v \in MatchedVehicles :
            \A c \in customer :
                v \in OwnedBy(c) =>
                    /\ resp.status = 200
                    /\ Cardinality({g \in resp.body.results : Shown(v) \in g.vehicles}) = 1
                    /\ \A g \in resp.body.results :
                           Shown(v) \in g.vehicles => g.customer = Shown(c)

\* The customer_id of v resolves to no stored customer.
Dangling(v) ==
    \/ "customer_id" \notin DOMAIN v
    \/ ~WellFormedId(v.customer_id)
    \/ \A c \in customer : c._id # OidOf(v.customer_id)

\* C10: for every matched vehicle whose customer_id resolves to no stored
\* customer, the search succeeds and the result holds a group with a null
\* customer that contains the vehicle and only vehicles of that same
\* customer_id.
C10_DanglingOwnerTolerated ==
    Searched =>
        \A v \in MatchedVehicles :
            Dangling(v) =>
                /\ resp.status = 200
                /\ \E g \in resp.body.results :
                       /\ g.customer = NoneDoc
                       /\ Shown(v) \in g.vehicles
                       /\ \A w \in g.vehicles : GetCustomerId(w) = GetCustomerId(v)

\* An inspection, or an invoice, by the string of its id.
HasInspection(id) == \E n \in inspection : Str(n._id) = id

InvoicesOf(id) == {i \in invoice : i.inspection_id = id}

\* C9, in every state: each invoice refers to a stored inspection, no two
\* invoices refer to the same one, a completed create_inspection returned the
\* ids of a stored inspection and of the one invoice that refers to it, and
\* an inspection without an invoice belongs to a create_inspection that is
\* between its two writes or stopped there.
C9_StateInvariant ==
    /\ \A i \in invoice : HasInspection(i.inspection_id)
    /\ \A i, j \in invoice : i.inspection_id = j.inspection_id => i = j
    /\ InspectionCreated =>
           /\ HasInspection(resp.body.inspection_id)
           /\ Cardinality(InvoicesOf(resp.body.inspection_id)) = 1
           /\ \A i \in InvoicesOf(resp.body.inspection_id) :
                  Str(i._id) = resp.body.invoice_id
    /\ \A n \in inspection :
           InvoicesOf(Str(n._id)) = {} =>
               \E r \in requests : r.ins_id = Str(n._id) /\ r.pc \in {"invoice", "stopped"}

\* C9: inspections and invoices stay 1:1 under create_inspection; the
\* inspection is written before its invoice (an invoice is only ever added
\* for an inspection stored in the state before), and the invoice a completed
\* create_inspection adds is the one whose ids it returns.
C9_InspectionInvoiceOneToOne ==
    /\ []C9_StateInvariant
    /\ [][ /\ \A j \in invoice' \ invoice : HasInspection(j.inspection_id)
           /\ \A r \in requests :
                  create_inspection_finish(r) =>
                      /\ Cardinality(invoice' \ invoice) = 1
                      /\ inspection' = inspection
                      /\ \A j \in invoice' \ invoice :
                             /\ Str(j._id) = resp'.body.invoice_id
                             /\ j.inspection_id = resp'.body.inspection_id
                             /\ j.inspection_id = r.ins_id ]_vars

\* One create_inspection has completed while another is between its two
\* writes, its inspection stored without an invoice.
C9_Witness ==
    /\ InspectionCreated
    /\ \E r \in requests : r.pc = "invoice" /\ InvoicesOf(r.ins_id) = {}
    /\ invoice # {}

====
